---- MODULE Spec2Model ----
(***************************************************************************)
(* Model of scraper_benchmark.py: main() seeds a queue.Queue with the      *)
(* catalogue pages, then runs worker() once on the main thread or once on  *)
(* each thread of a ThreadPoolExecutor.  A worker repeatedly takes a page  *)
(* with queue.get(block=False), fetches and parses it, fetches the detail  *)
(* page of every book inside an asyncio.TaskGroup, and extends the shared  *)
(* list all_books with the page's books.                                   *)
(*                                                                         *)
(* A page URL BASE_URL.format(page) is modelled by its page number, a book *)
(* dict by the pair <<page, index>>; book["details"] is the set details.   *)
(***************************************************************************)
EXTENDS Integers, Sequences, FiniteSets, TLC

\* Bounds of the model: range(1, 51) has 50 pages, workers is 8, and the real
\* site has 20 books a page.
NumPages == 2
NumWorkers == 2
MaxBooks == 2

Pages == 1..NumPages
Workers == 1..NumWorkers
BookIds == Pages \X (1..MaxBooks)

VARIABLES
    multithreaded,  \* main's argument
    site,           \* per catalogue page, its number of article.product_pod nodes
    queue,          \* queue.Queue of page URLs
    all_books,      \* the shared result list
    details,        \* the book dicts that have book["details"] set
    main_pc,        \* where main() is
    page,           \* main's seeding loop variable
    submitted,      \* executor.submit calls made so far
    total_books,    \* main's total_books, -1 before it is assigned
    pc,             \* per worker, where worker() is
    page_url,       \* per worker, its local page_url (0: none in use)
    books,          \* per worker, its local books (<<>>: none in use)
    task,           \* per worker, the unfinished and finished tasks of its TaskGroup
    outcome,        \* per worker, why it left its loop
    taken,          \* history: how often each page was returned by queue.get
    parsed,         \* history: pages whose list was fetched and parsed
    list_failed,    \* history: pages whose list fetch raised
    detail_failed,  \* history: pages with a detail fetch that raised
    aborted_done    \* history: of those, the pages that had a detail attached

vars == <<multithreaded, site, queue, all_books, details, main_pc, page,
          submitted, total_books, pc, page_url, books, task, outcome,
          taken, parsed, list_failed, detail_failed, aborted_done>>

mainVars == <<main_pc, page, submitted, total_books>>
histVars == <<taken, parsed, list_failed, detail_failed, aborted_done>>

Range(s) == {s[i] : i \in DOMAIN s}

Terminal == {"returned", "raised"}

\* The workers main() launches: range(workers) under the executor, else one.
Launched == IF multithreaded THEN Workers ELSE {1}

----------------------------------------------------------------------------
(* Pure parts *)

\* parse_books_list: one dict per article node of the page, in page order.
parse_books_list(p) == [i \in 1..site[p] |-> <<p, i>>]

\* A faulty extend that loses the first item of the batch.
list_extend_drop(l, bs) == l \o Tail(bs)

\* An append of the batch's first item in place of the extend.
list_extend_first(l, bs) == Append(l, Head(bs))

\* list.extend: atomic under the list's lock (GIL or per-object lock).
list_extend(l, bs) == l \o bs

\* A LIFO queue: the newest job comes first.
queue_last(q) == q[Len(q)]

\* The job queue.get returns: queue.Queue is FIFO.
queue_front(q) == Head(q)

\* A get that puts the job back at the end for a retry.
queue_rotate(q) == Append(Tail(q), Head(q))

\* A faulty get that leaves the head in the queue.
queue_peek(q) == q

\* A blocking get (block=True): Empty is never raised.
get_blocks(q) == FALSE

\* A get that also gives up once any worker has raised.
get_aborts(q) == q = <<>> \/ \E w \in DOMAIN pc : pc[w] = "raised"

\* queue.get(block=False) raises Empty at once when the queue holds nothing.
get_raises_empty(q) == q = <<>>

\* What queue.get leaves in the queue: the head is removed under the mutex.
queue_after_get(q) == Tail(q)

Pending(w) == {b \in DOMAIN task[w] : task[w][b] = "pending"}

\* A task that drops what parse_book_details returned.
attach_nothing(ds, b) == ds

\* book["details"] = parse_book_details(detail_html)
attach_details(ds, b) == ds \cup {b}

\* A loop that goes for the next job without the extend.
extend_skipped == "loop"

\* After the async with block comes all_books.extend(books).
after_join == "extend"

\* A scope that does not wait for its tasks.
no_join(w) == TRUE

\* TaskGroup.__aexit__ returns only when no task of the group is unfinished.
taskgroup_joined(w) == Pending(w) = {}

\* shutdown(wait=False).
no_wait == TRUE

\* ThreadPoolExecutor.__exit__ is shutdown(wait=True): joins every thread.
executor_joined == \A w \in Workers : pc[w] \in Terminal

\* A continue in place of the break: the empty page is skipped.
empty_page_skipped == "loop"

\* if not books: break leaves the while loop, and worker() returns.
after_empty_page == "returned"

\* A handler that swallows the exception and leaves the loop.
list_failure_swallowed == "returned"

\* An exception raised by fetch() at line 75 leaves the TaskGroup body and
\* the worker coroutine: nothing catches it.
after_list_failure == "raised"

\* A main that calls result() on every future.
shutdown_reraises == IF \E w \in Workers : pc[w] = "raised" THEN "raised" ELSE "report"

\* The futures executor.submit returns are dropped, so an exception a worker
\* raised is never re-raised in main.
after_shutdown == "report"

\* worker() run alone to completion on queue q with all_books = acc and no
\* fetch failing.
RECURSIVE worker_run(_, _)
worker_run(q, acc) ==
    IF q = <<>> THEN acc
    ELSE LET bs == parse_books_list(Head(q))
         IN  IF bs = <<>> THEN acc
             ELSE worker_run(Tail(q), list_extend(acc, bs))

Seeded == [i \in 1..NumPages |-> i]

----------------------------------------------------------------------------
Init ==
    /\ multithreaded \in BOOLEAN
    /\ site \in [Pages -> 0..MaxBooks]
    /\ queue = <<>>
    /\ all_books = <<>>
    /\ details = {}
    /\ main_pc = "seed"
    /\ page = 1
    /\ submitted = 0
    /\ total_books = -1
    /\ pc = [w \in Workers |-> "idle"]
    /\ page_url = [w \in Workers |-> 0]
    /\ books = [w \in Workers |-> <<>>]
    /\ task = [w \in Workers |-> <<>>]
    /\ outcome = [w \in Workers |-> "none"]
    /\ taken = [p \in Pages |-> 0]
    /\ parsed = {}
    /\ list_failed = {}
    /\ detail_failed = {}
    /\ aborted_done = {}

----------------------------------------------------------------------------
(* main *)

\* for page in range(1, 51): queue.put(...)
Seed ==
    /\ main_pc = "seed"
    /\ queue' = Append(queue, page)
    /\ page' = page + 1
    /\ main_pc' = IF page = NumPages THEN "start" ELSE "seed"
    /\ UNCHANGED <<multithreaded, site, all_books, details, submitted,
                   total_books, pc, page_url, books, task, outcome, histVars>>

\* else: asyncio.run(worker(queue, all_books)) on the main thread
RunSingle ==
    /\ main_pc = "start"
    /\ ~multithreaded
    /\ main_pc' = "run"
    /\ pc' = [pc EXCEPT ![1] = "loop"]
    /\ UNCHANGED <<multithreaded, site, queue, all_books, details, page,
                   submitted, total_books, page_url, books, task, outcome,
                   histVars>>

\* if multithreaded: with ThreadPoolExecutor(max_workers=workers) as executor
EnterExecutor ==
    /\ main_pc = "start"
    /\ multithreaded
    /\ main_pc' = "submit"
    /\ UNCHANGED <<multithreaded, site, queue, all_books, details, page,
                   submitted, total_books, pc, page_url, books, task, outcome,
                   histVars>>

\* for _ in range(workers): executor.submit(lambda: asyncio.run(worker(...)))
Submit ==
    /\ main_pc = "submit"
    /\ submitted < NumWorkers
    /\ submitted' = submitted + 1
    /\ pc' = [pc EXCEPT ![submitted + 1] = "loop"]
    /\ main_pc' = IF submitted + 1 = NumWorkers THEN "shutdown" ELSE "submit"
    /\ UNCHANGED <<multithreaded, site, queue, all_books, details, page,
                   total_books, page_url, books, task, outcome, histVars>>

\* the end of the with block
Shutdown ==
    /\ main_pc = "shutdown"
    /\ executor_joined
    /\ main_pc' = after_shutdown
    /\ UNCHANGED <<multithreaded, site, queue, all_books, details, page,
                   submitted, total_books, pc, page_url, books, task, outcome,
                   histVars>>

\* asyncio.run returns
SingleReturn ==
    /\ main_pc = "run"
    /\ pc[1] = "returned"
    /\ main_pc' = "report"
    /\ UNCHANGED <<multithreaded, site, queue, all_books, details, page,
                   submitted, total_books, pc, page_url, books, task, outcome,
                   histVars>>

\* asyncio.run re-raises what the coroutine raised; main has no handler
SingleRaise ==
    /\ main_pc = "run"
    /\ pc[1] = "raised"
    /\ main_pc' = "raised"
    /\ UNCHANGED <<multithreaded, site, queue, all_books, details, page,
                   submitted, total_books, pc, page_url, books, task, outcome,
                   histVars>>

\* total_books = len(all_books); print(...)
Report ==
    /\ main_pc = "report"
    /\ total_books' = Len(all_books)
    /\ main_pc' = "done"
    /\ UNCHANGED <<multithreaded, site, queue, all_books, details, page,
                   submitted, pc, page_url, books, task, outcome, histVars>>

Main ==
    \/ Seed
    \/ RunSingle
    \/ EnterExecutor
    \/ Submit
    \/ Shutdown
    \/ SingleReturn
    \/ SingleRaise
    \/ Report

----------------------------------------------------------------------------
(* worker *)

\* page_url = queue.get(block=False), a job was there
QueueGet(w) ==
    /\ pc[w] = "loop"
    /\ queue # <<>>
    /\ page_url' = [page_url EXCEPT ![w] = queue_front(queue)]
    /\ queue' = queue_after_get(queue)
    /\ taken' = [taken EXCEPT ![queue_front(queue)] = @ + 1]
    /\ pc' = [pc EXCEPT ![w] = "fetch"]
    /\ UNCHANGED <<multithreaded, site, all_books, details, mainVars, books,
                   task, outcome, parsed, list_failed, detail_failed,
                   aborted_done>>

\* except Empty: break
QueueEmpty(w) ==
    /\ pc[w] = "loop"
    /\ get_raises_empty(queue)
    /\ pc' = [pc EXCEPT ![w] = "returned"]
    /\ outcome' = [outcome EXCEPT ![w] = "empty"]
    /\ UNCHANGED <<multithreaded, site, queue, all_books, details, mainVars,
                   page_url, books, task, histVars>>

\* html = await fetch(session, page_url) returns the body
FetchListOk(w) ==
    /\ pc[w] = "fetch"
    /\ pc' = [pc EXCEPT ![w] = "parse"]
    /\ UNCHANGED <<multithreaded, site, queue, all_books, details, mainVars,
                   page_url, books, task, outcome, histVars>>

\* html = await fetch(session, page_url) raises
FetchListFail(w) ==
    /\ pc[w] = "fetch"
    /\ pc' = [pc EXCEPT ![w] = after_list_failure]
    /\ outcome' = [outcome EXCEPT ![w] = "list_error"]
    /\ list_failed' = list_failed \cup {page_url[w]}
    /\ page_url' = [page_url EXCEPT ![w] = 0]
    /\ UNCHANGED <<multithreaded, site, queue, all_books, details, mainVars,
                   books, task, taken, parsed, detail_failed,
                   aborted_done>>

\* books = parse_books_list(html); if not books: break; else one task a book
ParseList(w) ==
    /\ pc[w] = "parse"
    /\ LET bs == parse_books_list(page_url[w])
       IN  /\ books' = [books EXCEPT ![w] = bs]
           /\ IF bs = <<>>
              THEN /\ pc' = [pc EXCEPT ![w] = after_empty_page]
                   /\ outcome' = [outcome EXCEPT ![w] = "zero"]
                   /\ task' = task
                   /\ page_url' = [page_url EXCEPT ![w] = 0]
              ELSE /\ pc' = [pc EXCEPT ![w] = "join"]
                   /\ outcome' = outcome
                   /\ task' = [task EXCEPT ![w] =
                                 [b \in Range(bs) |-> "pending"]]
                   /\ page_url' = page_url
    /\ parsed' = parsed \cup {page_url[w]}
    /\ UNCHANGED <<multithreaded, site, queue, all_books, details, mainVars,
                   taken, list_failed, detail_failed,
                   aborted_done>>

\* fetch_book_with_details runs to its return: book["details"] is set
DetailOk(w, b) ==
    /\ pc[w] = "join"
    /\ b \in Pending(w)
    /\ task' = [task EXCEPT ![w][b] = "done"]
    /\ details' = attach_details(details, b)
    /\ UNCHANGED <<multithreaded, site, queue, all_books, mainVars, pc,
                   page_url, books, outcome, histVars>>

\* A gather(return_exceptions=True) in place of the TaskGroup: the failing
\* task ends alone and the batch goes on.
DetailFailIsolated(w, b) ==
    /\ pc[w] = "join"
    /\ b \in Pending(w)
    /\ task' = [task EXCEPT ![w][b] = "failed"]
    /\ detail_failed' = detail_failed \cup {page_url[w]}
    /\ UNCHANGED <<multithreaded, site, queue, all_books, details, mainVars,
                   pc, page_url, books, outcome, taken, parsed, list_failed,
                   aborted_done>>

\* fetch raises in fetch_book_with_details for book b: the TaskGroup cancels
\* the tasks still pending, waits for them and raises an ExceptionGroup at the
\* end of the async with block, which leaves worker().  All of it acts on the
\* worker's own objects only (books and their dicts), which are then released.
DetailFail(w, b) ==
    /\ pc[w] = "join"
    /\ b \in Pending(w)
    /\ detail_failed' = detail_failed \cup {page_url[w]}
    /\ pc' = [pc EXCEPT ![w] = "raised"]
    /\ outcome' = [outcome EXCEPT ![w] = "detail_error"]
    /\ details' = details \ Range(books[w])
    /\ books' = [books EXCEPT ![w] = <<>>]
    /\ task' = [task EXCEPT ![w] = <<>>]
    /\ page_url' = [page_url EXCEPT ![w] = 0]
    /\ aborted_done' = IF Range(books[w]) \cap details # {}
                       THEN aborted_done \cup {page_url[w]}
                       ELSE aborted_done
    /\ UNCHANGED <<multithreaded, site, queue, all_books, mainVars, taken,
                   parsed, list_failed>>

\* the end of the async with block: every task has returned
TaskGroupExit(w) ==
    /\ pc[w] = "join"
    /\ taskgroup_joined(w)
    /\ pc' = [pc EXCEPT ![w] = after_join]
    /\ UNCHANGED <<multithreaded, site, queue, all_books, details, mainVars,
                   page_url, books, task, outcome, histVars>>

\* all_books.extend(books), then the next iteration's TaskGroup()
Extend(w) ==
    /\ pc[w] = "extend"
    /\ all_books' = list_extend(all_books, books[w])
    /\ books' = [books EXCEPT ![w] = <<>>]
    /\ task' = [task EXCEPT ![w] = [b \in Pending(w) |-> "pending"]]
    /\ page_url' = [page_url EXCEPT ![w] = 0]
    /\ pc' = [pc EXCEPT ![w] = "loop"]
    /\ UNCHANGED <<multithreaded, site, queue, details, mainVars, outcome,
                   histVars>>

Worker(w) ==
    \/ QueueGet(w)
    \/ QueueEmpty(w)
    \/ FetchListOk(w)
    \/ FetchListFail(w)
    \/ ParseList(w)
    \/ \E b \in Pending(w) : DetailOk(w, b)
    \/ \E b \in Pending(w) : DetailFail(w, b)
    \/ TaskGroupExit(w)
    \/ Extend(w)

Next == Main \/ \E w \in Workers : Worker(w)

Spec == Init /\ [][Next]_vars

\* Every thread is scheduled and every fetch returns or raises.
FairSpec == Spec /\ WF_vars(Main) /\ \A w \in Workers : WF_vars(Worker(w))

----------------------------------------------------------------------------
(* Properties *)

Holding(w) == pc[w] \in {"fetch", "parse", "join", "extend"}

\* asyncio.run / the executor's threads are over for every launched worker.
WorkersTerminated ==
    /\ main_pc \notin {"seed", "start", "submit"}
    /\ \A w \in Launched : pc[w] \in Terminal

NoFetchFailed == list_failed = {} /\ detail_failed = {}

Count(b, s) == Cardinality({i \in DOMAIN s : s[i] = b})

RECURSIVE SumSite(_)
SumSite(n) == IF n = 0 THEN 0 ELSE site[n] + SumSite(n - 1)

RECURSIVE SumOver(_)
SumOver(S) ==
    IF S = {} THEN 0
    ELSE LET p == CHOOSE x \in S : TRUE IN site[p] + SumOver(S \ {p})

\* C1: under every interleaving of the workers' non-blocking takes, no page is
\* returned by queue.get more than once: never to two workers, never twice to
\* one.
C1_NoDuplicateDispatch ==
    /\ \A p \in Pages : taken[p] <= 1
    /\ \A w1, w2 \in Workers :
         (w1 # w2 /\ Holding(w1) /\ Holding(w2)) => page_url[w1] # page_url[w2]

\* Two workers hold a page each at the same time.
C1_Witness ==
    \E w1, w2 \in Workers :
        /\ w1 # w2
        /\ Holding(w1)
        /\ Holding(w2)
        /\ taken[page_url[w1]] = 1
        /\ taken[page_url[w2]] = 1

\* C2: once all workers have terminated, the queue is empty and every seeded
\* page has been dequeued exactly once (no job is left behind).
C2_EveryJobTaken ==
    WorkersTerminated => (queue = <<>> /\ \A p \in Pages : taken[p] = 1)

\* C3: in a run where no fetch fails, once all workers have terminated
\* len(all_books) is the sum of the summary counts of all seeded pages, and no
\* item is there twice.
C3_LengthIsSumOfAllPages ==
    (WorkersTerminated /\ NoFetchFailed) =>
        /\ Len(all_books) = SumSite(NumPages)
        /\ \A b \in BookIds : Count(b, all_books) <= 1

\* C4: with the same page contents and no fetch failing, the final all_books
\* of a run (multi-worker, any interleaving, or single-worker) has the same
\* set of items as the single-worker run.
C4_ModesSetEqual ==
    (WorkersTerminated /\ NoFetchFailed) =>
        Range(all_books) = Range(worker_run(Seeded, <<>>))

\* C5: with no detail fetch failing, once all workers have terminated
\* all_books holds exactly the summaries of the pages that were taken and
\* parsed, each once, so its length is the sum of those pages' counts.
C5_AppendsSafe ==
    (WorkersTerminated /\ detail_failed = {}) =>
        /\ \A b \in BookIds :
             Count(b, all_books) =
                 IF b[1] \in parsed /\ b[2] <= site[b[1]] THEN 1 ELSE 0
        /\ Len(all_books) = SumOver(parsed)

\* Two workers appended, the later page first.
C5_Witness ==
    /\ WorkersTerminated
    /\ multithreaded
    /\ detail_failed = {}
    /\ Len(all_books) >= 2
    /\ all_books[1][1] > all_books[Len(all_books)][1]

\* C6: whenever a worker is about to take, or has just taken, its next job, none
\* of the detail tasks it spawned is still in flight.
C6_JoinBarrier ==
    \A w \in Workers : pc[w] \in {"loop", "fetch"} => Pending(w) = {}

\* The single worker has joined and appended a page's tasks and taken the next
\* job.
C6_Witness ==
    /\ ~multithreaded
    /\ pc[1] = "fetch"
    /\ all_books # <<>>
    /\ Range(all_books) \subseteq details

AllExited == \A w \in Launched : pc[w] \in Terminal

C8_StatsAfterJoin ==
    /\ main_pc \in {"report", "done"} => AllExited
    /\ total_books # -1 => total_books = Len(all_books)

\* The pool's run is over and a positive count was read.
C8_Witness ==
    /\ multithreaded
    /\ main_pc = "done"
    /\ total_books > 0
    /\ \E w \in Workers : outcome[w] = "empty"

NothingOfPage(p) == \A i \in DOMAIN all_books : all_books[i][1] # p

ListFailedWorkers == {w \in Workers : outcome[w] = "list_error"}

ZeroWorkers == {w \in Workers : outcome[w] = "zero"}

ItemsOf(p) == {i \in DOMAIN all_books : all_books[i][1] = p}

\* C11: a worker that parsed a zero-summary page has left its pull loop for
\* good: it holds no job, takes none (no step of it is enabled) and has
\* nothing to append, whether or not jobs remain in the queue.
C11_ZeroPageEndsLoop ==
    \A w \in ZeroWorkers :
        /\ pc[w] = "returned"
        /\ page_url[w] = 0
        /\ books[w] = <<>>
        /\ task[w] = <<>>
        /\ ~ENABLED Worker(w)
        /\ \A p \in Pages : (p \in parsed /\ site[p] = 0) => ItemsOf(p) = {}

\* A pool worker ended on a zero-summary page while a job remained, and
\* another worker took that job and appended its items.
C11_Witness ==
    /\ multithreaded
    /\ main_pc = "done"
    /\ ZeroWorkers # {}
    /\ site[1] = 0
    /\ ItemsOf(2) # {}

\* C12: once the detail fetch of an item of a page has failed, no item of
\* that page is ever in all_books, the items whose details were already
\* attached included.
C12_BatchAborted ==
    /\ \A p \in detail_failed : ItemsOf(p) = {} /\ p \in parsed
    /\ aborted_done \subseteq detail_failed
    /\ \A w \in Workers :
         outcome[w] = "detail_error" => pc[w] = "raised" /\ books[w] = <<>>

\* A batch was aborted after one of its items had its details attached, and
\* the run has ended without any item of that page.
C12_Witness ==
    /\ main_pc = "done"
    /\ \E p \in aborted_done : site[p] >= 2 /\ ItemsOf(p) = {}

RaisedWorkers == {w \in Workers : pc[w] = "raised"}

\* Once a worker has raised: a worker at its take finds the queue as open as
\* before, and if the run ends with a worker that saw the queue empty, every
\* job was taken once and fetched.
OthersKeepPulling ==
    RaisedWorkers # {} =>
        /\ \A u \in Launched :
             (pc[u] = "loop" /\ queue # <<>>) => ENABLED QueueGet(u)
        /\ (AllExited /\ \E u \in Launched : outcome[u] = "empty") =>
             /\ queue = <<>>
             /\ \A p \in Pages : taken[p] = 1 /\ p \in parsed \cup list_failed

C14_OnlyEnrichedItems ==
    \A i \in DOMAIN all_books :
        LET b == all_books[i]
        IN  /\ b[2] \in 1..site[b[1]]
            /\ b \in details
            /\ b[1] \notin detail_failed
            /\ \A w \in Workers : b \notin DOMAIN task[w]

\* A page's items are in all_books while another page's tasks are partly done.
C14_Witness ==
    /\ all_books # <<>>
    /\ \E w \in Workers :
         /\ pc[w] = "join"
         /\ Pending(w) # {}
         /\ \E b \in DOMAIN task[w] : task[w][b] = "done" /\ b \in details

WorkerStarted == \E w \in Workers : pc[w] # "idle"

IsSuffixOfSeeded(q) ==
    \E k \in 0..NumPages : q = SubSeq(Seeded, k + 1, NumPages)

\* C15: main has put pages 1..P, all of them, before the first worker runs;
\* from then on no put occurs: the queue only loses its head, and a page once
\* taken is never in the queue again, whatever became of it.
C15_SeededOnceNeverRequeued ==
    /\ [](main_pc = "start" => (queue = Seeded /\ ~WorkerStarted))
    /\ [](WorkerStarted =>
            /\ main_pc \notin {"seed", "start"}
            /\ page = NumPages + 1
            /\ IsSuffixOfSeeded(queue)
            /\ \A p \in Pages : taken[p] >= 1 => p \notin Range(queue))
    /\ [][main_pc # "seed" => (queue' = queue \/ queue' = Tail(queue))]_vars

\* The pool's run is over: page 1's fetch failed and it was not taken again.
C15_Witness ==
    /\ multithreaded
    /\ AllExited
    /\ WorkerStarted
    /\ queue = <<>>
    /\ 1 \in list_failed
    /\ \A p \in Pages : taken[p] = 1

\* Pulling is "loop", FetchingList "fetch", ParsingList "parse",
\* FetchingDetails "join", Appending "extend"; the last four pairs are the
\* exits: Empty take, zero-summary page, failed list fetch, failed detail fetch.
CycleSteps ==
    {<<"idle", "loop">>, <<"loop", "fetch">>, <<"fetch", "parse">>,
     <<"parse", "join">>, <<"join", "extend">>, <<"extend", "loop">>,
     <<"loop", "returned">>, <<"parse", "returned">>,
     <<"fetch", "raised">>, <<"join", "raised">>}

\* C16: a worker moves only along Pulling -> FetchingList -> ParsingList ->
\* FetchingDetails -> Appending -> Pulling, holding one page at a time, and
\* the step from Appending to Pulling appends its whole batch; with no fetch
\* failure it ends only by an Empty take or a zero-summary page, with no
\* batch in hand.
C16_WorkerCycle ==
    /\ [][\A w \in Workers :
            /\ pc'[w] # pc[w] => <<pc[w], pc'[w]>> \in CycleSteps
            /\ (pc[w] = "extend" /\ pc'[w] # pc[w]) =>
                 (books[w] # <<>> /\ all_books' = all_books \o books[w])
            /\ (pc'[w] = "raised" /\ pc[w] # "raised") => ~NoFetchFailed']_vars
    /\ [](\A w \in Workers :
            /\ Holding(w) <=> page_url[w] # 0
            /\ pc[w] \in {"idle", "loop", "fetch", "parse"} => books[w] = <<>>
            /\ pc[w] \in {"join", "extend"} =>
                 books[w] = parse_books_list(page_url[w]))
    /\ [](NoFetchFailed =>
            \A w \in Workers :
                pc[w] \in Terminal =>
                    /\ pc[w] = "returned"
                    /\ outcome[w] \in {"empty", "zero"}
                    /\ books[w] = <<>>)

\* The single worker went round the cycle for every page, no fetch failed,
\* and it ended on the Empty take.
C16_Witness ==
    /\ ~multithreaded
    /\ NoFetchFailed
    /\ pc[1] = "returned"
    /\ outcome[1] = "empty"
    /\ \A p \in Pages : ItemsOf(p) # {}

\* C17: in every state, for each page, all_books holds either every summary of
\* the page, each once, or none of them.
C17_AllOrNothing ==
    \A p \in Pages :
        \/ ItemsOf(p) = {}
        \/ \A i \in 1..MaxBooks :
             Count(<<p, i>>, all_books) = IF i <= site[p] THEN 1 ELSE 0

\* A page of two or more items is in all_books whole, and a page whose batch
\* was aborted after a detail was attached is absent whole.
C17_Witness ==
    \E p, q \in Pages :
        /\ site[p] >= 2
        /\ Cardinality(ItemsOf(p)) = site[p]
        /\ site[q] >= 2
        /\ q \in aborted_done
        /\ ItemsOf(q) = {}

TakenPages == {p \in Pages : taken[p] >= 1}

\* Page p ends a worker's loop: it is empty, or a fetch for it failed.
Stops(p) == site[p] = 0 \/ p \in list_failed \/ p \in detail_failed

\* C18: in single-worker mode the pages are taken in seeding order: the pages
\* taken are 1..m, a page's items are in all_books only after every earlier
\* page was taken and appended, and when the worker has ended m is the first
\* page that is empty or has a failed fetch (or the last page, if none is).
C18_SingleWorkerInOrder ==
    ~multithreaded =>
        /\ \E m \in 0..NumPages : TakenPages = 1..m
        /\ \A p \in Pages : taken[p] <= 1
        /\ \A i, j \in DOMAIN all_books :
             i < j => all_books[i][1] <= all_books[j][1]
        /\ \A p \in Pages :
             ItemsOf(p) # {} =>
                 \A j \in 1..(p - 1) : taken[j] = 1 /\ ItemsOf(j) # {}
        /\ pc[1] \in Terminal =>
             \E m \in Pages :
                 /\ TakenPages = 1..m
                 /\ \A j \in 1..(m - 1) : ~Stops(j)
                 /\ Stops(m) \/ (m = NumPages /\ outcome[1] = "empty")

\* The single worker appended page 1 and ended on page 2, which is empty or
\* has a failed fetch.
C18_Witness ==
    /\ ~multithreaded
    /\ pc[1] \in Terminal
    /\ ItemsOf(1) # {}
    /\ TakenPages = {1, 2}
    /\ Stops(2)

====
